---- MODULE Spec2Model ----
(***************************************************************************)
(* Calendar allocation engine of the Math Curriculum Planner:              *)
(*   calculateInstructionalStats, getWeekDateRanges, generateEmptyWeeks    *)
(*   and distributeLessons (src/unnamed/part_003), driven by the inputs    *)
(*   the wizard keeps in its state (src/types.ts).                         *)
(*                                                                         *)
(* Calendar days are numbered from a reference Sunday: day 0 is a Sunday,  *)
(* so the weekday of day d is d % 7 (0 = Sunday ... 6 = Saturday).         *)
(* A JavaScript Date is [valid, day, hour]: the local calendar day and the *)
(* local hour of the instant; hour 24 stands for 23:59:59.999 (endOfDay).  *)
(* A 'yyyy-MM-dd' string is [ok, day]; ok = FALSE is an unparseable text.  *)
(* An ISO timestamp (Date.toISOString) is [utcDay, utcHour].               *)
(***************************************************************************)
EXTENDS Integers, Sequences, FiniteSets, TLC

(***************************************************************************)
(* Bounds of the model.                                                    *)
(***************************************************************************)
MaxStart == 5
MaxDay == 14
MaxExclusions == 2
MaxWeekNum == 3
MaxPackDays == 5
MaxLessons == 3
MaxPipeSpan == 3
MaxPipeExclusions == 1
MaxPipeLessons == 2
MaxRepeats == 1
MaxRepackDays == 4
MaxRepackLessons == 2
MaxWeekSpan == 4

\* Offsets (hours) of the local time zone from UTC: one west, one east.
TzOffsets == {-5, 3}

\* Days named by the day-level exclusions the driver tries (a Tuesday and
\* the Sunday of the second week).
BlockedDays == {2, 7}

\* Lesson.pacing values the driver tries
PacingValues == {0, 1, 2, 3}

VARIABLES
    tz,                      \* offset of the runtime's time zone, hours
    start, end,              \* the range, as parseISO(schedule.startDate/endDate)
    blockedDates,            \* BlockedDate[]
    blockedWeeks,            \* BlockedWeek[]
    pc,                      \* position of the driver
    stats,                   \* result of calculateInstructionalStats
    ranges,                  \* result of getWeekDateRanges
    weekStart,               \* generateEmptyWeeks: local
    rawWeekCounter,          \* generateEmptyWeeks: local
    instructionalWeekCounter,\* generateEmptyWeeks: local
    weeks,                   \* generateEmptyWeeks: local, the array being built
    emptyWeeks,              \* value returned by generateEmptyWeeks
    lessons,                 \* Lesson[]
    heap,                    \* the DayPlan objects: address -> fields
    inWeeks,                 \* distributeLessons: parameter weeks (WeekPlan objects)
    updatedWeeks,            \* distributeLessons: local
    pos,                     \* distributeLessons: <<week, day>> the loops stand at
    lessonIdx,               \* distributeLessons: local
    dayInLessonCounter,      \* distributeLessons: local
    filledWeeks,             \* value returned by distributeLessons
    atCall,                  \* the arguments as they were when distributeLessons was called
    round,                   \* how many times the driver has run the operations
    edit,                    \* the last change made to the exclusion lists
    step,                    \* App state: the wizard step
    loading,                 \* App state
    curriculumMap,           \* App state: CurriculumMap | null
    meta,                    \* runAIGeneration: local
    detailsList              \* runAIGeneration: local

vars == <<tz, start, end, blockedDates, blockedWeeks, pc, stats, ranges,
          weekStart, rawWeekCounter, instructionalWeekCounter, weeks, emptyWeeks,
          lessons, heap, inWeeks, updatedWeeks, pos, lessonIdx, dayInLessonCounter,
          filledWeeks, atCall, round, edit, step, loading, curriculumMap, meta, detailsList>>

inputs == <<tz, start, end, blockedDates, blockedWeeks, lessons>>

genLocals == <<weekStart, rawWeekCounter, instructionalWeekCounter, weeks>>

packLocals == <<updatedWeeks, pos, lessonIdx, dayInLessonCounter>>

packState == <<heap, inWeeks, updatedWeeks, pos, lessonIdx, dayInLessonCounter,
               filledWeeks, atCall>>

ui == <<step, loading, curriculumMap, meta, detailsList>>

calendarState == <<stats, ranges, weekStart, rawWeekCounter, instructionalWeekCounter,
                   weeks, emptyWeeks>>

(***************************************************************************)
(* Values of the language.                                                 *)
(***************************************************************************)
\* weekNumber: number | null
Null == -1

\* an absent optional property (blockLabel?, lessonId?, lessonName?)
Undefined == "undefined"

\* the number NaN, as Number(pacing) gives it for a pacing that is not a
\* number: a value no pacing of the inputs takes, never used in arithmetic
NaN == -1000

\* JavaScript truthiness of a string or undefined value
Truthy(s) == s # "" /\ s # Undefined

\* a || b on strings
OrElse(a, b) == IF Truthy(a) THEN a ELSE b

RECURSIVE SeqsUpTo(_, _)
SeqsUpTo(S, n) ==
    IF n = 0 THEN {<<>>}
    ELSE LET shorter == SeqsUpTo(S, n - 1)
         IN  shorter \cup {Append(s, x) : s \in {t \in shorter : Len(t) = n - 1}, x \in S}

\* Array.prototype.find: index of the first element satisfying P, 0 when none
RECURSIVE FindFrom(_, _, _)
FindFrom(arr, P(_), i) ==
    IF i > Len(arr) THEN 0
    ELSE IF P(arr[i]) THEN i
    ELSE FindFrom(arr, P, i + 1)

(***************************************************************************)
(* Dates (date-fns and Date).                                              *)
(***************************************************************************)
MkDate(d) == [valid |-> TRUE, day |-> d, hour |-> 0]

NaD == [valid |-> FALSE, day |-> 0, hour |-> 0]

isValid(d) == d.valid

startOfDay(d) == [d EXCEPT !.hour = 0]

endOfDay(d) == [d EXCEPT !.hour = 24]

addDays(d, n) == [d EXCEPT !.day = d.day + n]

getDay(d) == d.day % 7

isBefore(a, b) == a.day < b.day \/ (a.day = b.day /\ a.hour < b.hour)

isAfter(a, b) == a.day > b.day \/ (a.day = b.day /\ a.hour > b.hour)

differenceInCalendarDays(a, b) == a.day - b.day

\* format(d, 'yyyy-MM-dd'): the local calendar day
format(d) == d.day

\* new Date(text) for a date-only text: midnight UTC of that day, seen locally
NewDateFromText(s) ==
    IF ~s.ok THEN NaD
    ELSE [valid |-> TRUE, day |-> (s.day * 24 + tz) \div 24, hour |-> (s.day * 24 + tz) % 24]

\* Date.prototype.toISOString: the UTC day and hour of the instant
toISOString(d) ==
    [utcDay |-> (d.day * 24 + d.hour - tz) \div 24, utcHour |-> (d.day * 24 + d.hour - tz) % 24]

\* new Date(iso) for a full ISO timestamp
NewDateFromISO(iso) ==
    [valid |-> TRUE, day |-> (iso.utcDay * 24 + iso.utcHour + tz) \div 24,
     hour |-> (iso.utcDay * 24 + iso.utcHour + tz) % 24]

parseISOIfNeeded(date) ==
    LET d == NewDateFromText(date)
    IN  IF isValid(d) THEN d ELSE NaD

\* School week: Sunday (0) to Thursday (4)
SCHOOL_DAYS == {0, 1, 2, 3, 4}

\* while (getDay(x) !== 0) x = addDays(x, -1)
RECURSIVE AlignToSunday(_)
AlignToSunday(d) == IF getDay(d) # 0 THEN AlignToSunday(addDays(d, -1)) ELSE d

(***************************************************************************)
(* calculateInstructionalStats                                             *)
(***************************************************************************)
\* mutant: Math.floor in place of Math.ceil
CeilDiv5_floor(n) == n \div 5

\* ceil(n / 5) for n >= 0
\* mutant: the days are not divided by the length of the week
CeilDiv5_perDay(n) == n

CeilDiv5(n) == (n + 4) \div 5

getWeekNum(date) ==
    LET firstSunday == AlignToSunday(startOfDay(start))
        diff == differenceInCalendarDays(startOfDay(date), firstSunday)
    IN  (diff \div 7) + 1

\* mutant: a date text that does not parse is formatted like any other
blockedDateStrings_unfiltered ==
    {format(parseISOIfNeeded(blockedDates[i].date)) : i \in 1..Len(blockedDates)}

blockedDateStrings ==
    {format(parseISOIfNeeded(blockedDates[i].date)) :
        i \in {j \in 1..Len(blockedDates) : isValid(parseISOIfNeeded(blockedDates[j].date))}}

\* mutant: a week exclusion removes days only when it is excluded from count
isAvailableDay_flagOnly(day) ==
    IF format(day) \in blockedDateStrings THEN FALSE
    ELSE LET weekNum == getWeekNum(day)
             isWeekBlocked == \E i \in 1..Len(blockedWeeks) :
                                 /\ blockedWeeks[i].weekNumber = weekNum
                                 /\ blockedWeeks[i].excludeFromCount
         IN  ~isWeekBlocked

isAvailableDay(day) ==
    IF format(day) \in blockedDateStrings THEN FALSE
    ELSE LET weekNum == getWeekNum(day)
             isWeekBlocked == \E i \in 1..Len(blockedWeeks) : blockedWeeks[i].weekNumber = weekNum
         IN  ~isWeekBlocked

calculateInstructionalStats ==
    IF ~isValid(start) \/ ~isValid(end) \/ isAfter(start, end)
    THEN [totalDays |-> 0, totalWeeks |-> 0]
    ELSE LET allDays == {MkDate(d) : d \in startOfDay(start).day .. endOfDay(end).day}
             schoolDays == {d \in allDays : getDay(d) \in SCHOOL_DAYS}
             availableDays == {d \in schoolDays : isAvailableDay(d)}
         IN  [totalDays |-> Cardinality(availableDays),
              totalWeeks |-> CeilDiv5(Cardinality(availableDays))]

(***************************************************************************)
(* getWeekDateRanges                                                       *)
(***************************************************************************)
\* `${format(a, 'MMM d')} - ${format(b, 'MMM d')}`
rangeText(a, b) == <<format(a), format(b)>>

\* mutant: weekCounter++ only for a week that is pushed
RECURSIVE rangesLoop_dense(_, _, _)
rangesLoop_dense(current, weekCounter, acc) ==
    LET finish == endOfDay(end)
        weekEnd == addDays(current, 4)
        overlaps == ~isAfter(current, finish) /\ ~isBefore(weekEnd, startOfDay(start))
        pushed == IF overlaps
                  THEN Append(acc, [weekNumber |-> weekCounter, range |-> rangeText(current, weekEnd)])
                  ELSE acc
    IN  IF isBefore(current, finish)
        THEN rangesLoop_dense(addDays(current, 7), IF overlaps THEN weekCounter + 1 ELSE weekCounter, pushed)
        ELSE acc

RECURSIVE rangesLoop(_, _, _)
rangesLoop(current, weekCounter, acc) ==
    LET finish == endOfDay(end)
        weekEnd == addDays(current, 4)
        overlaps == ~isAfter(current, finish) /\ ~isBefore(weekEnd, startOfDay(start))
        pushed == IF overlaps
                  THEN Append(acc, [weekNumber |-> weekCounter, range |-> rangeText(current, weekEnd)])
                  ELSE acc
    IN  IF isBefore(current, finish)
        THEN rangesLoop(addDays(current, 7), weekCounter + 1, pushed)
        ELSE acc

getWeekDateRanges ==
    IF ~isValid(start) \/ ~isValid(end) THEN <<>>
    ELSE rangesLoop(AlignToSunday(startOfDay(start)), 1, <<>>)

(***************************************************************************)
(* generateEmptyWeeks: one action per iteration of the while loop          *)
(***************************************************************************)
\* mutant: week exclusions are looked up by the sequential display number
weekBlockIdx_display ==
    LET Matches(bw) == bw.weekNumber = instructionalWeekCounter
    IN  FindFrom(blockedWeeks, Matches, 1)

\* mutant: the last matching week exclusion is taken, not the first
weekBlockIdx_last ==
    LET found == {j \in 1..Len(blockedWeeks) : blockedWeeks[j].weekNumber = rawWeekCounter}
    IN  IF found = {} THEN 0 ELSE CHOOSE j \in found : \A k \in found : k <= j

\* blockedWeeks.find(bw => bw.weekNumber === rawWeekCounter), as an index (0: none)
weekBlockIdx ==
    LET Matches(bw) == bw.weekNumber = rawWeekCounter
    IN  FindFrom(blockedWeeks, Matches, 1)

\* blockedDates.find(b => isValid(d) && format(d) === dateStr), as an index (0: none)
dateBlockIdx(dateStr) ==
    LET Matches(b) == LET d == parseISOIfNeeded(b.date)
                      IN  isValid(d) /\ format(d) = dateStr
    IN  FindFrom(blockedDates, Matches, 1)

\* weekBlock?.label, dateBlock?.label
labelOf(arr, idx) == IF idx = 0 THEN Undefined ELSE arr[idx].label

\* mutant: a week exclusion blocks its days only when it is excluded from count
dayIsBlocked_countedOnly(wb, db) == (wb # 0 /\ blockedWeeks[wb].excludeFromCount) \/ db # 0

dayIsBlocked(wb, db) == wb # 0 \/ db # 0

dayBlockLabel(wb, db) == OrElse(labelOf(blockedWeeks, wb), labelOf(blockedDates, db))

newDayPlan(day) ==
    LET wb == weekBlockIdx
        db == dateBlockIdx(format(day))
    IN  [date |-> toISOString(day),
         dayName |-> getDay(day),
         isBlocked |-> dayIsBlocked(wb, db),
         blockLabel |-> dayBlockLabel(wb, db),
         lessonId |-> Undefined,
         lessonName |-> Undefined]

\* mutant: the loop visits eight days, so a week can reach the next Sunday
RECURSIVE weekDaysLoop_eightDays(_, _)
weekDaysLoop_eightDays(i, acc) ==
    LET day == addDays(weekStart, i)
        dNum == getDay(day)
        pushed == IF dNum \in SCHOOL_DAYS THEN Append(acc, newDayPlan(day)) ELSE acc
    IN  IF i >= 8 THEN acc
        ELSE IF isAfter(day, endOfDay(end)) THEN acc
        ELSE IF isBefore(day, startOfDay(start)) THEN weekDaysLoop_eightDays(i + 1, acc)
        ELSE IF dNum = 4 THEN pushed
        ELSE weekDaysLoop_eightDays(i + 1, pushed)

\* mutant: days of the first week before range.start are kept
RECURSIVE weekDaysLoop_noClip(_, _)
weekDaysLoop_noClip(i, acc) ==
    LET day == addDays(weekStart, i)
        dNum == getDay(day)
        pushed == IF dNum \in SCHOOL_DAYS THEN Append(acc, newDayPlan(day)) ELSE acc
    IN  IF i >= 7 THEN acc
        ELSE IF isAfter(day, endOfDay(end)) THEN acc
        ELSE IF dNum = 4 THEN pushed
        ELSE weekDaysLoop_noClip(i + 1, pushed)

\* for (let i = 0; i < 7; i++) { ... }
RECURSIVE weekDaysLoop(_, _)
weekDaysLoop(i, acc) ==
    LET day == addDays(weekStart, i)
        dNum == getDay(day)
        pushed == IF dNum \in SCHOOL_DAYS THEN Append(acc, newDayPlan(day)) ELSE acc
    IN  IF i >= 7 THEN acc
        ELSE IF isAfter(day, endOfDay(end)) THEN acc
        ELSE IF isBefore(day, startOfDay(start)) THEN weekDaysLoop(i + 1, acc)
        ELSE IF dNum = 4 THEN pushed
        ELSE weekDaysLoop(i + 1, pushed)

\* mutant: every matched week exclusion is taken out of the numbering
excludedFromCount_anyBlock(wb) == wb # 0

excludedFromCount(wb) == wb # 0 /\ blockedWeeks[wb].excludeFromCount

\* mutant: the label shows the raw index of the week
weekLabelText_raw(n) == "Week " \o ToString(rawWeekCounter)

weekLabelText(n) == "Week " \o ToString(n)

\* mutant: the week is numbered by its raw index
assignedWeekNumber_raw(wb) == IF excludedFromCount(wb) THEN Null ELSE rawWeekCounter

assignedWeekNumber(wb) == IF excludedFromCount(wb) THEN Null ELSE instructionalWeekCounter

newWeekPlan(weekDays) ==
    LET wb == weekBlockIdx
        excluded == excludedFromCount(wb)
    IN  [weekNumber |-> assignedWeekNumber(wb),
         displayWeekLabel |-> IF excluded THEN OrElse(blockedWeeks[wb].label, "Holiday Break")
                              ELSE weekLabelText(assignedWeekNumber(wb)),
         dates |-> rangeText(NewDateFromISO(weekDays[1].date),
                             NewDateFromISO(weekDays[Len(weekDays)].date)),
         days |-> weekDays,
         isBlocked |-> wb # 0,
         blockLabel |-> labelOf(blockedWeeks, wb)]

\* mutant: instructionalWeekCounter is initialised once, not at every call
GenStart_staleCounter ==
    /\ pc = "gen"
    /\ IF ~isValid(start) \/ ~isValid(end)
       THEN /\ emptyWeeks' = <<>>
            /\ pc' = "genDone"
            /\ UNCHANGED genLocals
       ELSE /\ weeks' = <<>>
            /\ weekStart' = AlignToSunday(startOfDay(start))
            /\ rawWeekCounter' = 1
            /\ instructionalWeekCounter' =
                   IF instructionalWeekCounter = 0 THEN 1 ELSE instructionalWeekCounter
            /\ pc' = "genLoop"
            /\ UNCHANGED emptyWeeks
    /\ UNCHANGED <<inputs, round, edit, ui, stats, ranges, packState>>

GenStart ==
    /\ pc = "gen"
    /\ IF ~isValid(start) \/ ~isValid(end)
       THEN /\ emptyWeeks' = <<>>
            /\ pc' = "genDone"
            /\ UNCHANGED genLocals
       ELSE /\ weeks' = <<>>
            /\ weekStart' = AlignToSunday(startOfDay(start))
            /\ rawWeekCounter' = 1
            /\ instructionalWeekCounter' = 1
            /\ pc' = "genLoop"
            /\ UNCHANGED emptyWeeks
    /\ UNCHANGED <<inputs, round, edit, ui, stats, ranges, packState>>

GenWeek ==
    /\ pc = "genLoop"
    /\ isBefore(weekStart, endOfDay(end))
    /\ LET weekDays == weekDaysLoop(0, <<>>)
       IN  IF Len(weekDays) > 0
           THEN /\ weeks' = Append(weeks, newWeekPlan(weekDays))
                /\ instructionalWeekCounter' =
                       IF excludedFromCount(weekBlockIdx) THEN instructionalWeekCounter
                       ELSE instructionalWeekCounter + 1
           ELSE UNCHANGED <<weeks, instructionalWeekCounter>>
    /\ weekStart' = addDays(weekStart, 7)
    /\ rawWeekCounter' = rawWeekCounter + 1
    /\ UNCHANGED <<inputs, round, edit, ui, pc, stats, ranges, emptyWeeks, packState>>

GenReturn ==
    /\ pc = "genLoop"
    /\ ~isBefore(weekStart, endOfDay(end))
    /\ emptyWeeks' = weeks
    /\ pc' = "genDone"
    /\ UNCHANGED <<inputs, round, edit, ui, stats, ranges, genLocals, packState>>


(***************************************************************************)
(* distributeLessons: one action per day visited by the two for loops.     *)
(* The WeekPlan and DayPlan objects live in the heap. A WeekPlan[] is the  *)
(* sequence of the addresses of its WeekPlan objects; the days field of a  *)
(* WeekPlan object is the sequence of the addresses of its DayPlan objects.*)
(***************************************************************************)
\* the objects of a WeekPlan[]: its WeekPlan objects, their DayPlan objects
weekRefs(ws) == {ws[w] : w \in 1..Len(ws)}

dayAddrs(ws, h) == UNION {{h[ws[w]].days[d] : d \in 1..Len(h[ws[w]].days)} : w \in 1..Len(ws)}

\* a WeekPlan[] by value: every address replaced by the fields it holds in h
contents(ws, h) ==
    [w \in 1..Len(ws) |->
        [h[ws[w]] EXCEPT !.days = [d \in 1..Len(h[ws[w]].days) |-> h[h[ws[w]].days[d]]]]]

\* the Day Plans of a Week Plan sequence given by value, in order
RECURSIVE planDays(_)
planDays(ws) == IF ws = <<>> THEN <<>> ELSE Head(ws).days \o planDays(Tail(ws))

RECURSIVE daysBefore(_, _)
daysBefore(ws, w) == IF w <= 1 THEN 0 ELSE daysBefore(ws, w - 1) + Len(ws[w - 1].days)

\* fresh objects for the Week Plans ws (given by value) in heap h: the weeks
\* first, then the days in order; [weeks: the new WeekPlan[], heap: the new heap]
allocWeeks(ws, h) ==
    LET base == Len(h)
        n == Len(ws)
        flat == planDays(ws)
    IN  [weeks |-> [w \in 1..n |-> base + w],
         heap |-> [a \in 1..(base + n + Len(flat)) |->
                      IF a <= base THEN h[a]
                      ELSE IF a <= base + n
                      THEN [ws[a - base] EXCEPT !.days =
                               [d \in 1..Len(ws[a - base].days) |->
                                   base + n + daysBefore(ws, a - base) + d]]
                      ELSE flat[a - base - n]]]

\* JSON.parse(JSON.stringify(x)): strings, numbers, booleans and null come
\* back as they were; a property holding undefined is dropped by stringify
\* and reads as undefined after parse
jsonDay(day) ==
    [date |-> day.date, dayName |-> day.dayName, isBlocked |-> day.isBlocked,
     blockLabel |-> day.blockLabel, lessonId |-> day.lessonId, lessonName |-> day.lessonName]

jsonWeeks(ws) ==
    [w \in 1..Len(ws) |->
        [weekNumber |-> ws[w].weekNumber,
         displayWeekLabel |-> ws[w].displayWeekLabel,
         dates |-> ws[w].dates,
         days |-> [d \in 1..Len(ws[w].days) |-> jsonDay(ws[w].days[d])],
         isBlocked |-> ws[w].isBlocked,
         blockLabel |-> ws[w].blockLabel]]

\* mutant: no copy is taken, the loops run over the caller's objects
copiedWeeks_alias(ws, h) == ws

\* const updatedWeeks = JSON.parse(JSON.stringify(weeks))
copiedWeeks(ws, h) == allocWeeks(jsonWeeks(contents(ws, h)), h).weeks

copiedHeap(ws, h) == allocWeeks(jsonWeeks(contents(ws, h)), h).heap

\* the first <<week, day>> at or after <<w, d>> that names a day; <<0, 0>> when none
RECURSIVE seek(_, _, _, _)
seek(ws, h, w, d) ==
    IF w > Len(ws) THEN <<0, 0>>
    ELSE IF d > Len(h[ws[w]].days) THEN seek(ws, h, w + 1, 1)
    ELSE <<w, d>>

\* mutant: Number(pacing) && 1
pacingOrOne_andOne(pacing) == IF pacing = 0 THEN 0 ELSE 1

\* Number(pacing) || 1: 0 and NaN are falsy, every other number is kept
pacingOrOne(pacing) == IF pacing = 0 \/ pacing = NaN THEN 1 ELSE pacing

\* mutant: === for >=
lessonDone_exact(counter, lesson) == counter = pacingOrOne(lesson.pacing)

\* mutant: > for >=
lessonDone_strict(counter, lesson) == counter > pacingOrOne(lesson.pacing)

lessonDone(counter, lesson) == counter >= pacingOrOne(lesson.pacing)

\* mutant: the check of isBlocked is missing
dayIsSkipped_blockedToo(day) == lessonIdx >= Len(lessons)

\* if (day.isBlocked) continue; if (lessonIdx >= lessons.length) continue;
dayIsSkipped(day) == day.isBlocked \/ lessonIdx >= Len(lessons)

\* mutant: the lessons are taken from the end of the list
currentLesson_fromEnd == lessons[Len(lessons) - lessonIdx]

\* lessons[lessonIdx]
currentLesson == lessons[lessonIdx + 1]

DistStart ==
    /\ pc = "pack"
    /\ lessonIdx' = 0
    /\ dayInLessonCounter' = 0
    /\ updatedWeeks' = copiedWeeks(inWeeks, heap)
    /\ heap' = copiedHeap(inWeeks, heap)
    /\ pos' = seek(updatedWeeks', heap', 1, 1)
    /\ atCall' = [weeks |-> inWeeks, heap |-> heap, lessons |-> lessons]
    /\ pc' = "packLoop"
    /\ UNCHANGED <<inputs, round, edit, ui, calendarState, inWeeks, filledWeeks>>

\* the address of the day the loops stand at
curDay == heap[updatedWeeks[pos[1]]].days[pos[2]]

\* mutant: day.lessonId and day.lessonName are not reset before the checks
DistDay_noClear ==
    /\ pc = "packLoop"
    /\ pos # <<0, 0>>
    /\ LET day == curDay
       IN  IF dayIsSkipped(heap[day])
           THEN UNCHANGED <<heap, lessonIdx, dayInLessonCounter>>
           ELSE /\ heap' = [heap EXCEPT ![day] = [heap[day] EXCEPT
                                !.lessonId = currentLesson.id,
                                !.lessonName = currentLesson.name]]
                /\ IF lessonDone(dayInLessonCounter + 1, currentLesson)
                   THEN /\ lessonIdx' = lessonIdx + 1
                        /\ dayInLessonCounter' = 0
                   ELSE /\ dayInLessonCounter' = dayInLessonCounter + 1
                        /\ UNCHANGED lessonIdx
    /\ pos' = seek(updatedWeeks, heap, pos[1], pos[2] + 1)
    /\ UNCHANGED <<inputs, round, edit, ui, calendarState, pc, inWeeks, updatedWeeks, filledWeeks, atCall>>

DistDay ==
    /\ pc = "packLoop"
    /\ pos # <<0, 0>>
    /\ LET day == curDay
           cleared == [heap[day] EXCEPT !.lessonId = Undefined, !.lessonName = Undefined]
       IN  IF dayIsSkipped(cleared)
           THEN /\ heap' = [heap EXCEPT ![day] = cleared]
                /\ UNCHANGED <<lessonIdx, dayInLessonCounter>>
           ELSE /\ heap' = [heap EXCEPT ![day] = [cleared EXCEPT
                                !.lessonId = currentLesson.id,
                                !.lessonName = currentLesson.name]]
                /\ IF lessonDone(dayInLessonCounter + 1, currentLesson)
                   THEN /\ lessonIdx' = lessonIdx + 1
                        /\ dayInLessonCounter' = 0
                   ELSE /\ dayInLessonCounter' = dayInLessonCounter + 1
                        /\ UNCHANGED lessonIdx
    /\ pos' = seek(updatedWeeks, heap, pos[1], pos[2] + 1)
    /\ UNCHANGED <<inputs, round, edit, ui, calendarState, pc, inWeeks, updatedWeeks, filledWeeks, atCall>>

DistReturn ==
    /\ pc = "packLoop"
    /\ pos = <<0, 0>>
    /\ filledWeeks' = updatedWeeks
    /\ pc' = "packDone"
    /\ UNCHANGED <<inputs, round, edit, ui, calendarState, heap, inWeeks, packLocals, atCall>>

(***************************************************************************)
(* The inputs the drivers try.                                             *)
(***************************************************************************)
\* (start, end) as parseISO gives them: local midnights, or Invalid Date
RangeInputs ==
    {<<MkDate(s), MkDate(e)>> : s \in 0..MaxStart, e \in 0..MaxDay}
        \cup {<<NaD, MkDate(0)>>, <<MkDate(0), NaD>>, <<NaD, NaD>>}

DateTexts == {[ok |-> TRUE, day |-> d] : d \in BlockedDays} \cup {[ok |-> FALSE, day |-> 0]}

BlockedDateRecs == [date : DateTexts, label : {"Exam"}]

BlockedWeekRecs == [weekNumber : 1..MaxWeekNum, label : {"Break"}, excludeFromCount : BOOLEAN]

\* the exclusion lists: at most MaxExclusions records over the two lists
ExclusionInputs ==
    {x \in SeqsUpTo(BlockedDateRecs, MaxExclusions) \X SeqsUpTo(BlockedWeekRecs, MaxExclusions) :
        Len(x[1]) + Len(x[2]) <= MaxExclusions}

newLesson(i, pacing) ==
    [id |-> "L" \o ToString(i), name |-> "N" \o ToString(i), pacing |-> pacing]

LessonInputs ==
    {[i \in 1..Len(p) |-> newLesson(i, p[i])] : p \in SeqsUpTo(PacingValues, MaxLessons)}

NoStats == [totalDays |-> Null, totalWeeks |-> Null]

CalendarIdle ==
    /\ stats = NoStats
    /\ ranges = <<>>
    /\ weekStart = NaD
    /\ rawWeekCounter = 0
    /\ instructionalWeekCounter = 0
    /\ weeks = <<>>
    /\ emptyWeeks = <<>>

PackIdle ==
    /\ updatedWeeks = <<>>
    /\ pos = <<0, 0>>
    /\ lessonIdx = 0
    /\ dayInLessonCounter = 0
    /\ filledWeeks = <<>>
    /\ atCall = [weeks |-> <<>>, heap |-> <<>>, lessons |-> <<>>]

\* enum Step
ACADEMIC_INFO == 0
SCHEDULE == 1
BLOCKING == 2
LESSONS == 3
GENERATION == 4
PREVIEW == 5

\* useState<CurriculumMap | null>(null)
NullMap == [set |-> FALSE]

NoEdit == [kind |-> "none"]

\* const meta of runAIGeneration before generateCourseMeta has resolved
NoMeta == [description |-> Undefined, objectives |-> Undefined,
           prerequisites |-> Undefined, credits |-> Undefined]

\* the App as constructed: first step, nothing loading, no map
UiIdle ==
    /\ step = ACADEMIC_INFO
    /\ loading = FALSE
    /\ curriculumMap = NullMap
    /\ meta = NoMeta
    /\ detailsList = <<>>

(***************************************************************************)
(* Spec: the calendar operations over every range and exclusion list.      *)
(***************************************************************************)
Init ==
    /\ tz \in TzOffsets
    /\ \E r \in RangeInputs : start = r[1] /\ end = r[2]
    /\ \E x \in ExclusionInputs : blockedDates = x[1] /\ blockedWeeks = x[2]
    /\ lessons = <<>>
    /\ pc = "stats"
    /\ round = 0
    /\ CalendarIdle
    /\ heap = <<>>
    /\ inWeeks = <<>>
    /\ PackIdle
    /\ edit = NoEdit
    /\ UiIdle

CallStats ==
    /\ pc = "stats"
    /\ stats' = calculateInstructionalStats
    /\ pc' = "ranges"
    /\ UNCHANGED <<inputs, round, edit, ui, ranges, genLocals, emptyWeeks, packState>>

CallRanges ==
    /\ pc = "ranges"
    /\ ranges' = getWeekDateRanges
    /\ pc' = "gen"
    /\ UNCHANGED <<inputs, round, edit, ui, stats, genLocals, emptyWeeks, packState>>

Next ==
    \/ CallStats
    \/ CallRanges
    \/ GenStart
    \/ GenWeek
    \/ GenReturn

Spec == Init /\ [][Next]_vars

(***************************************************************************)
(* SpecPack: distributeLessons over every WeekPlan[] of at most            *)
(* MaxPackDays days (weeks of two days) and every lesson list.             *)
(***************************************************************************)
packDay(k, blocked) ==
    [date |-> [utcDay |-> k, utcHour |-> 0], dayName |-> k % 7, isBlocked |-> blocked,
     blockLabel |-> IF blocked THEN "Exam" ELSE Undefined,
     lessonId |-> Undefined, lessonName |-> Undefined]

packWeek(w, flags) ==
    [weekNumber |-> w, displayWeekLabel |-> weekLabelText(w),
     dates |-> <<2 * w - 1, IF 2 * w <= Len(flags) THEN 2 * w ELSE 2 * w - 1>>,
     days |-> [d \in 1..(IF 2 * w <= Len(flags) THEN 2 ELSE 1) |->
                  packDay(2 * (w - 1) + d, flags[2 * (w - 1) + d])],
     isBlocked |-> FALSE, blockLabel |-> Undefined]

packInput(flags) == [w \in 1..((Len(flags) + 1) \div 2) |-> packWeek(w, flags)]

InitPack ==
    /\ tz = 3
    /\ start = NaD
    /\ end = NaD
    /\ blockedDates = <<>>
    /\ blockedWeeks = <<>>
    /\ CalendarIdle
    /\ lessons \in LessonInputs
    /\ \E flags \in SeqsUpTo(BOOLEAN, MaxPackDays) :
          /\ heap = allocWeeks(packInput(flags), <<>>).heap
          /\ inWeeks = allocWeeks(packInput(flags), <<>>).weeks
    /\ pc = "pack"
    /\ round = 0
    /\ PackIdle
    /\ edit = NoEdit
    /\ UiIdle

NextPack ==
    \/ DistStart
    \/ DistDay
    \/ DistReturn

SpecPack == InitPack /\ [][NextPack]_vars

(***************************************************************************)
(* SpecPacing: distributeLessons over lessons whose pacing is 0, negative  *)
(* or not a number, next to a lesson of pacing 2.                          *)
(***************************************************************************)
OddPacings == {NaN, -2, 0, 2}

OddLessonInputs ==
    {[i \in 1..Len(p) |-> newLesson(i, p[i])] : p \in SeqsUpTo(OddPacings, MaxLessons)}

InitPacing ==
    /\ tz = 3
    /\ start = NaD
    /\ end = NaD
    /\ blockedDates = <<>>
    /\ blockedWeeks = <<>>
    /\ CalendarIdle
    /\ lessons \in OddLessonInputs
    /\ \E flags \in SeqsUpTo(BOOLEAN, MaxPackDays) :
          /\ heap = allocWeeks(packInput(flags), <<>>).heap
          /\ inWeeks = allocWeeks(packInput(flags), <<>>).weeks
    /\ pc = "pack"
    /\ round = 0
    /\ PackIdle
    /\ edit = NoEdit
    /\ UiIdle

SpecPacing == InitPacing /\ [][NextPack]_vars

(***************************************************************************)
(* SpecRepack: distributeLessons(W, L1), then distributeLessons over what  *)
(* that call returned with a second list L2, then distributeLessons(W, L2) *)
(* over fresh objects for W.                                               *)
(***************************************************************************)
\* the first lists: ids L1, L2
FirstLessons ==
    {[i \in 1..Len(p) |-> newLesson(i, p[i])] : p \in SeqsUpTo({1, 2}, MaxRepackLessons)}

\* the second lists: ids of their own (L11, L12)
SecondLessons ==
    {[i \in 1..Len(p) |-> newLesson(10 + i, p[i])] : p \in SeqsUpTo({1, 2}, MaxRepackLessons)}

InitRepack ==
    /\ tz = 3
    /\ start = NaD
    /\ end = NaD
    /\ blockedDates = <<>>
    /\ blockedWeeks = <<>>
    /\ stats = NoStats
    /\ ranges = <<>>
    /\ weekStart = NaD
    /\ rawWeekCounter = 0
    /\ instructionalWeekCounter = 0
    /\ weeks = <<>>
    /\ lessons \in FirstLessons
    /\ \E flags \in SeqsUpTo(BOOLEAN, MaxRepackDays) :
          /\ emptyWeeks = packInput(flags)
          /\ heap = allocWeeks(packInput(flags), <<>>).heap
          /\ inWeeks = allocWeeks(packInput(flags), <<>>).weeks
    /\ pc = "pack"
    /\ round = 0
    /\ PackIdle
    /\ edit = NoEdit
    /\ UiIdle

\* distributeLessons(filledWeeks, l2): the weeks just returned are packed again
PackAgain ==
    /\ pc = "packDone"
    /\ round = 0
    /\ lessons' \in SecondLessons
    /\ inWeeks' = filledWeeks
    /\ round' = 1
    /\ pc' = "pack"
    /\ UNCHANGED <<tz, start, end, blockedDates, blockedWeeks, edit, ui, calendarState,
                   heap, packLocals, filledWeeks, atCall>>

\* distributeLessons(emptyWeeks, l2): the weeks of the first call, second list
PackFresh ==
    /\ pc = "packDone"
    /\ round = 1
    /\ inWeeks' = allocWeeks(emptyWeeks, heap).weeks
    /\ heap' = allocWeeks(emptyWeeks, heap).heap
    /\ round' = 2
    /\ pc' = "pack"
    /\ UNCHANGED <<inputs, edit, ui, calendarState, packLocals, filledWeeks, atCall>>

NextRepack ==
    \/ DistStart
    \/ DistDay
    \/ DistReturn
    \/ PackAgain
    \/ PackFresh

SpecRepack == InitRepack /\ [][NextRepack]_vars

(***************************************************************************)
(* SpecPipe: the App's use of the engine, run MaxRepeats + 1 times over    *)
(* the same inputs: actualStats, availableWeeksWithDates, then             *)
(* distributeLessons(generateEmptyWeeks(...), lessons) as runAIGeneration  *)
(* calls them. The results of the earlier run stay in stats, ranges,       *)
(* emptyWeeks and filledWeeks until the later run replaces them.           *)
(***************************************************************************)
PipeRanges == {<<MkDate(s), MkDate(s + MaxPipeSpan)>> : s \in 0..MaxStart}

PipeBlockedDates ==
    {[date |-> [ok |-> TRUE, day |-> d], label |-> "Exam"] : d \in {2, 7}}

PipeBlockedWeeks ==
    {[weekNumber |-> 1, label |-> "Break", excludeFromCount |-> TRUE],
     [weekNumber |-> 2, label |-> "Break", excludeFromCount |-> FALSE]}

PipeLessons ==
    {[i \in 1..Len(p) |-> newLesson(i, p[i])] : p \in SeqsUpTo({1, 2}, MaxPipeLessons)}

InitPipe ==
    /\ tz \in TzOffsets
    /\ \E r \in PipeRanges : start = r[1] /\ end = r[2]
    /\ blockedDates \in SeqsUpTo(PipeBlockedDates, MaxPipeExclusions)
    /\ blockedWeeks \in {<<>>} \cup {<<r>> : r \in PipeBlockedWeeks}
    /\ lessons \in PipeLessons
    /\ pc = "stats"
    /\ round = 0
    /\ CalendarIdle
    /\ heap = <<>>
    /\ inWeeks = <<>>
    /\ PackIdle
    /\ edit = NoEdit
    /\ UiIdle

\* distributeLessons(emptyWeeks, lessons): the argument is the array of the
\* objects generateEmptyWeeks built
CallDistribute ==
    /\ pc = "genDone"
    /\ inWeeks' = allocWeeks(emptyWeeks, heap).weeks
    /\ heap' = allocWeeks(emptyWeeks, heap).heap
    /\ pc' = "pack"
    /\ UNCHANGED <<inputs, round, edit, ui, calendarState, packLocals, filledWeeks, atCall>>

\* the same inputs once more (a re-render, a second click on Generate)
Again ==
    /\ pc = "packDone"
    /\ round < MaxRepeats
    /\ round' = round + 1
    /\ pc' = "stats"
    /\ UNCHANGED <<inputs, edit, ui, calendarState, packState>>

NextPipe ==
    \/ CallStats
    \/ CallRanges
    \/ GenStart
    \/ GenWeek
    \/ GenReturn
    \/ CallDistribute
    \/ DistStart
    \/ DistDay
    \/ DistReturn
    \/ Again

SpecPipe == InitPipe /\ [][NextPipe]_vars

(***************************************************************************)
(* SpecWeek: the same run over ranges of MaxWeekSpan + 1 calendar days     *)
(* (Sunday to Thursday among them), with lessons as long as a whole week.  *)
(***************************************************************************)
WeekRanges == {<<MkDate(s), MkDate(s + MaxWeekSpan)>> : s \in 0..MaxStart}

WeekBlockedDates ==
    {[date |-> [ok |-> TRUE, day |-> d], label |-> "Exam"] : d \in {2, 3, 8}}

WeekLessons ==
    {[i \in 1..Len(p) |-> newLesson(i, p[i])] : p \in SeqsUpTo({2, 5}, MaxPipeLessons)}

InitWeek ==
    /\ tz \in TzOffsets
    /\ \E r \in WeekRanges : start = r[1] /\ end = r[2]
    /\ blockedDates \in {<<>>} \cup {<<r>> : r \in WeekBlockedDates}
    /\ blockedWeeks \in {<<>>} \cup {<<r>> : r \in PipeBlockedWeeks}
    /\ lessons \in WeekLessons
    /\ pc = "stats"
    /\ round = 0
    /\ CalendarIdle
    /\ heap = <<>>
    /\ inWeeks = <<>>
    /\ PackIdle
    /\ edit = NoEdit
    /\ UiIdle

SpecWeek == InitWeek /\ [][NextPipe]_vars

(***************************************************************************)
(* SpecDup: the calendar operations over two week exclusions, for the same *)
(* week or not, whose labels and excludeFromCount vary independently.      *)
(***************************************************************************)
DupWeekRecs ==
    [weekNumber : {1, 2}, label : {"", "Break", "Camp"}, excludeFromCount : BOOLEAN]

InitDup ==
    /\ tz \in TzOffsets
    /\ \E r \in WeekRanges : start = r[1] /\ end = r[2]
    /\ blockedDates \in SeqsUpTo(PipeBlockedDates, MaxPipeExclusions)
    /\ \E a \in DupWeekRecs, b \in DupWeekRecs : blockedWeeks = <<a, b>>
    /\ lessons = <<>>
    /\ pc = "stats"
    /\ round = 0
    /\ CalendarIdle
    /\ heap = <<>>
    /\ inWeeks = <<>>
    /\ PackIdle
    /\ edit = NoEdit
    /\ UiIdle

SpecDup == InitDup /\ [][Next]_vars

(***************************************************************************)
(* SpecLabels: the calendar operations over exclusion records whose labels *)
(* vary, the empty text the label inputs allow included.                   *)
(***************************************************************************)
LabelDateRecs == [date : {[ok |-> TRUE, day |-> d] : d \in {2, 3}}, label : {"Exam", "Trip"}]

LabelWeekRecs == [weekNumber : {1, 2}, label : {"Break", ""}, excludeFromCount : BOOLEAN]

InitLabels ==
    /\ tz \in TzOffsets
    /\ \E r \in PipeRanges : start = r[1] /\ end = r[2]
    /\ blockedDates \in SeqsUpTo(LabelDateRecs, MaxPipeExclusions)
    /\ blockedWeeks \in SeqsUpTo(LabelWeekRecs, MaxPipeExclusions)
    /\ lessons = <<>>
    /\ pc = "stats"
    /\ round = 0
    /\ CalendarIdle
    /\ heap = <<>>
    /\ inWeeks = <<>>
    /\ PackIdle
    /\ edit = NoEdit
    /\ UiIdle

SpecLabels == InitLabels /\ [][Next]_vars

(***************************************************************************)
(* SpecEdit: the engine is run, the user changes the exclusion lists once  *)
(* (a record added through "Block a Day" / "Block a Week" or a loaded      *)
(* configuration, or the "Exclude from #?" checkbox of a record toggled),  *)
(* and the engine is run again. The results of the first run stay in       *)
(* stats, emptyWeeks and filledWeeks until the second run replaces them.   *)
(***************************************************************************)
EditLessons == {l \in PipeLessons : Len(l) = MaxPipeLessons}

EditDateRecs == {r \in BlockedDateRecs : ~r.date.ok \/ r.date.day = 2}

\* week numbers of an added record: below the raw weeks, the first raw week,
\* and the one after the last raw week of the range
EditWeekNumbers == {-1, 0, 1, getWeekNum(end) + 1}

InitEdit ==
    /\ tz \in TzOffsets
    /\ \E r \in PipeRanges : start = r[1] /\ end = r[2]
    /\ blockedDates \in SeqsUpTo(PipeBlockedDates, MaxPipeExclusions)
    /\ blockedWeeks \in {<<>>} \cup {<<r>> : r \in PipeBlockedWeeks}
    /\ lessons \in EditLessons
    /\ pc = "stats"
    /\ round = 0
    /\ CalendarIdle
    /\ heap = <<>>
    /\ inWeeks = <<>>
    /\ PackIdle
    /\ edit = NoEdit
    /\ UiIdle

\* setBlockedDates([...blockedDates, rec])
AddBlockedDate ==
    /\ pc = "packDone"
    /\ edit = NoEdit
    /\ \E rec \in EditDateRecs :
          /\ blockedDates' = Append(blockedDates, rec)
          /\ edit' = [kind |-> "addDate", rec |-> rec]
    /\ round' = round + 1
    /\ pc' = "stats"
    /\ UNCHANGED <<tz, start, end, blockedWeeks, lessons, ui, calendarState, packState>>

\* setBlockedWeeks([...blockedWeeks, rec])
AddBlockedWeek ==
    /\ pc = "packDone"
    /\ edit = NoEdit
    /\ \E n \in EditWeekNumbers :
          LET rec == [weekNumber |-> n, label |-> "Break", excludeFromCount |-> TRUE]
          IN  /\ blockedWeeks' = Append(blockedWeeks, rec)
              /\ edit' = [kind |-> "addWeek", rec |-> rec]
    /\ round' = round + 1
    /\ pc' = "stats"
    /\ UNCHANGED <<tz, start, end, blockedDates, lessons, ui, calendarState, packState>>

\* newBlocks[i].excludeFromCount = e.target.checked; setBlockedWeeks(newBlocks)
ToggleExcludeFromCount ==
    /\ pc = "packDone"
    /\ edit = NoEdit
    /\ \E i \in 1..Len(blockedWeeks) :
          /\ blockedWeeks' = [blockedWeeks EXCEPT ![i].excludeFromCount = ~@]
          /\ edit' = [kind |-> "toggle", index |-> i]
    /\ round' = round + 1
    /\ pc' = "stats"
    /\ UNCHANGED <<tz, start, end, blockedDates, lessons, ui, calendarState, packState>>

NextEdit ==
    \/ CallStats
    \/ CallRanges
    \/ GenStart
    \/ GenWeek
    \/ GenReturn
    \/ CallDistribute
    \/ DistStart
    \/ DistDay
    \/ DistReturn
    \/ AddBlockedDate
    \/ AddBlockedWeek
    \/ ToggleExcludeFromCount

SpecEdit == InitEdit /\ [][NextEdit]_vars

(***************************************************************************)
(* SpecApp: the wizard. The user moves between the steps and presses       *)
(* Generate; runAIGeneration awaits the two enrichment calls, each of      *)
(* which resolves or rejects, then builds and packs the weeks and sets the *)
(* curriculum map. At most MaxRepeats + 1 runs.                            *)
(***************************************************************************)
AppRanges == {<<MkDate(s), MkDate(s + MaxPipeSpan)>> : s \in {0, 4}}

\* what generateCourseMeta resolves to
courseMeta == [description |-> "description", objectives |-> "objectives",
               prerequisites |-> "prerequisites", credits |-> "credits"]

\* a record of detailsResponse.results
aiDetail(id) ==
    [lessonId |-> id, expectations |-> "ai", skills |-> "ai", questions |-> "ai",
     strategies |-> "ai", activities |-> "ai"]

\* the object literal after || in lessons.forEach
placeholderDetail ==
    [expectations |-> "Instructional expectations pending...",
     skills |-> "Critical skills pending...",
     questions |-> "Inquiry questions pending...",
     strategies |-> "Teaching strategies pending...",
     activities |-> "Student activities pending..."]

\* the lists generateLessonDetails can resolve to: details for any of the lessons
DetailLists ==
    {SelectSeq([i \in 1..Len(lessons) |-> aiDetail(lessons[i].id)],
               LAMBDA d : d.lessonId \in ids) : ids \in SUBSET {lessons[i].id : i \in 1..Len(lessons)}}

\* detailsList.find(d => d.lessonId === l.id) || { ...placeholders }
detailFor(l) ==
    LET Matches(d) == d.lessonId = l.id
        idx == FindFrom(detailsList, Matches, 1)
    IN  IF idx = 0 THEN placeholderDetail
        ELSE [f \in DOMAIN placeholderDetail |-> detailsList[idx][f]]

\* filledWeeks.flatMap(w => w.days.filter(d => d.lessonId === l.id).map(d => d.date))
assignedDays(l, ws) ==
    LET Carries(day) == day.lessonId = l.id
        days == SelectSeq(planDays(ws), Carries)
    IN  [k \in 1..Len(days) |-> days[k].date]

\* mappedDetails[l.id] = { ...l, ...detail, assignedDays }
mappedDetails(ws) ==
    [id \in {lessons[i].id : i \in 1..Len(lessons)} |->
        LET l == lessons[CHOOSE i \in 1..Len(lessons) : lessons[i].id = id]
        IN  [id |-> l.id, name |-> l.name, pacing |-> l.pacing,
             detail |-> detailFor(l), assignedDays |-> assignedDays(l, ws)]]

InitApp ==
    /\ tz \in TzOffsets
    /\ \E r \in AppRanges : start = r[1] /\ end = r[2]
    /\ blockedDates \in SeqsUpTo(PipeBlockedDates, MaxPipeExclusions)
    /\ blockedWeeks \in SeqsUpTo(PipeBlockedWeeks, MaxPipeExclusions)
    /\ lessons \in PipeLessons
    /\ pc = "idle"
    /\ round = 0
    /\ CalendarIdle
    /\ heap = <<>>
    /\ inWeeks = <<>>
    /\ PackIdle
    /\ edit = NoEdit
    /\ UiIdle

appIdle == <<inputs, round, edit, pc, loading, curriculumMap, meta, detailsList,
             calendarState, packState>>

\* "Next" / "Continue" buttons of the first three steps
handleNext ==
    /\ pc = "idle"
    /\ step \in {ACADEMIC_INFO, SCHEDULE, BLOCKING}
    /\ step' = step + 1
    /\ UNCHANGED appIdle

\* "Back" buttons of SCHEDULE, BLOCKING and LESSONS
handleBack ==
    /\ pc = "idle"
    /\ step \in {SCHEDULE, BLOCKING, LESSONS}
    /\ step' = step - 1
    /\ UNCHANGED appIdle

\* "Modify Lessons" button of the preview
ModifyLessons ==
    /\ pc = "idle"
    /\ step = PREVIEW
    /\ step' = LESSONS
    /\ UNCHANGED appIdle

\* runAIGeneration up to the first await; the button is disabled while
\* lessons is empty or loading
RunStart ==
    /\ pc = "idle"
    /\ step = LESSONS
    /\ Len(lessons) # 0 /\ ~loading
    /\ round <= MaxRepeats
    /\ round' = round + 1
    /\ loading' = TRUE
    /\ step' = GENERATION
    /\ pc' = "meta"
    /\ UNCHANGED <<inputs, edit, curriculumMap, meta, detailsList, calendarState, packState>>

\* await generateCourseMeta(academic) resolves
MetaResolves ==
    /\ pc = "meta"
    /\ meta' = courseMeta
    /\ pc' = "details"
    /\ UNCHANGED <<inputs, round, edit, step, loading, curriculumMap, detailsList,
                   calendarState, packState>>

\* await generateCourseMeta(academic) rejects
MetaRejects ==
    /\ pc = "meta"
    /\ pc' = "catch"
    /\ UNCHANGED <<inputs, round, edit, ui, calendarState, packState>>

\* await generateLessonDetails(academic, lessons) resolves
DetailsResolve ==
    /\ pc = "details"
    /\ detailsList' \in DetailLists
    /\ pc' = "gen"
    /\ UNCHANGED <<inputs, round, edit, step, loading, curriculumMap, meta,
                   calendarState, packState>>

\* await generateLessonDetails(academic, lessons) rejects
DetailsReject ==
    /\ pc = "details"
    /\ pc' = "catch"
    /\ UNCHANGED <<inputs, round, edit, ui, calendarState, packState>>

\* the rest of the try block after distributeLessons, then finally
RunFinish ==
    /\ pc = "packDone"
    /\ curriculumMap' =
          [set |-> TRUE,
           weeks |-> filledWeeks,
           lessonDetails |-> mappedDetails(contents(filledWeeks, heap)),
           courseDescription |-> meta.description,
           learningObjectives |-> meta.objectives,
           prerequisites |-> meta.prerequisites,
           courseCredit |-> meta.credits]
    /\ step' = PREVIEW
    /\ loading' = FALSE
    /\ pc' = "idle"
    /\ UNCHANGED <<inputs, round, edit, meta, detailsList, calendarState, packState>>

\* mutant: the catch block leaves the step as it is
RunCatch_noStep ==
    /\ pc = "catch"
    /\ loading' = FALSE
    /\ pc' = "idle"
    /\ UNCHANGED <<inputs, round, edit, step, curriculumMap, meta, detailsList,
                   calendarState, packState>>

\* catch (err) { alert(...); setStep(Step.LESSONS) } finally { setLoading(false) }
RunCatch ==
    /\ pc = "catch"
    /\ step' = LESSONS
    /\ loading' = FALSE
    /\ pc' = "idle"
    /\ UNCHANGED <<inputs, round, edit, curriculumMap, meta, detailsList,
                   calendarState, packState>>

\* reader.onload of handleFileUpload, for a file of one lesson of pacing 1
\* chosen at the LESSONS step: the read ends there or, after a Generate, on
\* the preview. No read ends while a run is between its first await and
\* its end.
FileLoaded ==
    /\ pc = "idle"
    /\ step \in {LESSONS, PREVIEW}
    /\ Len(lessons) < MaxPipeLessons
    /\ lessons' = Append(lessons, newLesson(Len(lessons) + 1, 1))
    /\ UNCHANGED <<tz, start, end, blockedDates, blockedWeeks, round, edit, pc, ui,
                   calendarState, packState>>

NextApp ==
    \/ handleNext
    \/ handleBack
    \/ ModifyLessons
    \/ FileLoaded
    \/ RunStart
    \/ MetaResolves
    \/ MetaRejects
    \/ DetailsResolve
    \/ DetailsReject
    \/ GenStart
    \/ GenWeek
    \/ GenReturn
    \/ CallDistribute
    \/ DistStart
    \/ DistDay
    \/ DistReturn
    \/ RunFinish
    \/ RunCatch

SpecApp == InitApp /\ [][NextApp]_vars

\* the statements of runAIGeneration after its second await, and those of
\* its catch and finally blocks, run to the end without yielding
runToCompletion ==
    \/ GenStart
    \/ GenWeek
    \/ GenReturn
    \/ CallDistribute
    \/ DistStart
    \/ DistDay
    \/ DistReturn
    \/ RunFinish
    \/ RunCatch

\* every step of runToCompletion changes one of these
runPosition == <<pc, weekStart, pos>>

\* the App before any exclusion or lesson is entered, the range starting on
\* a Sunday
InitFair ==
    /\ InitApp
    /\ tz = 3
    /\ start = MkDate(0)
    /\ blockedDates = <<>>
    /\ blockedWeeks = <<>>
    /\ lessons = <<>>

\* the wizard with the run going on once the awaits are over; nothing is
\* assumed about the enrichment calls ever settling
FairApp == InitFair /\ [][NextApp]_vars /\ WF_runPosition(runToCompletion)

(***************************************************************************)
(* Vocabulary of the properties.                                           *)
(***************************************************************************)
validRange == isValid(start) /\ isValid(end) /\ ~isAfter(start, end)

\* the calendar date of a Day Plan, as new Date(day.date) reads it
localDate(day) == NewDateFromISO(day.date)

\* the raw index of an emitted week, from the dates of its days
rawIndexOf(week) == getWeekNum(localDate(week.days[1]))

IsUnblocked(day) == ~day.isBlocked

unblockedDays(ws) == SelectSeq(planDays(ws), IsUnblocked)

\* indexes of the week-level exclusions whose weekNumber is the week's raw index
matchingExclusions(week) ==
    {j \in 1..Len(blockedWeeks) : blockedWeeks[j].weekNumber = rawIndexOf(week)}

\* the first of them in list order (0: none)
firstMatch(week) ==
    IF matchingExclusions(week) = {} THEN 0
    ELSE CHOOSE j \in matchingExclusions(week) : \A k \in matchingExclusions(week) : j <= k

dateExcluded(day) ==
    \E i \in 1..Len(blockedDates) :
        blockedDates[i].date.ok /\ blockedDates[i].date.day = localDate(day).day

IsNumbered(week) == week.weekNumber # Null

numberedWeeks(ws) == SelectSeq(ws, IsNumbered)

genReturned == pc = "genDone"

(***************************************************************************)
(* Properties of the calendar operations (Spec).                           *)
(***************************************************************************)
\* C1: for every valid range and all exclusion lists, totalDays of
\* calculateInstructionalStats is the number of Day Plans with
\* isBlocked = false in the weeks generateEmptyWeeks returns for the same inputs.
C1_TotalDaysMatchUnblocked ==
    (genReturned /\ validRange) => stats.totalDays = Len(unblockedDays(emptyWeeks))

\* a valid range where a day exclusion and a week exclusion each block days
\* and some days stay free
C1_Witness ==
    /\ genReturned /\ validRange
    /\ stats.totalDays > 0
    /\ \E w \in 1..Len(emptyWeeks) : emptyWeeks[w].isBlocked
    /\ \E w \in 1..Len(emptyWeeks) :
          /\ ~emptyWeeks[w].isBlocked
          /\ \E d \in 1..Len(emptyWeeks[w].days) : emptyWeeks[w].days[d].isBlocked

\* C2: in the output of generateEmptyWeeks a Day Plan is blocked if and only
\* if its calendar date is the date of some day-level exclusion or the raw
\* index of its week is the weekNumber of some week-level exclusion.
C2_BlockedIffExcluded ==
    genReturned =>
        \A w \in 1..Len(emptyWeeks) : \A d \in 1..Len(emptyWeeks[w].days) :
            emptyWeeks[w].days[d].isBlocked <=>
                (dateExcluded(emptyWeeks[w].days[d]) \/ matchingExclusions(emptyWeeks[w]) # {})

\* C3: the weeks with a non-null weekNumber carry, in order, exactly 1..k,
\* where k is the number of emitted weeks with no matching week-level
\* exclusion or whose matching exclusion (the one the lookup finds: the
\* first in list order) has excludeFromCount = false.
C3_DenseWeekNumbers ==
    genReturned =>
        LET numbered == numberedWeeks(emptyWeeks)
            counted == {w \in 1..Len(emptyWeeks) :
                           \/ firstMatch(emptyWeeks[w]) = 0
                           \/ ~blockedWeeks[firstMatch(emptyWeeks[w])].excludeFromCount}
        IN  /\ \A j \in 1..Len(numbered) : numbered[j].weekNumber = j
            /\ Len(numbered) = Cardinality(counted)

\* scenario C: three raw weeks, the second excluded from count: 1, absent, 2;
\* and a range whose first raw week is dropped for emptiness
C3_Witness ==
    /\ genReturned
    /\ Len(emptyWeeks) = 3
    /\ emptyWeeks[1].weekNumber = 1
    /\ emptyWeeks[2].weekNumber = Null
    /\ emptyWeeks[3].weekNumber = 2
    /\ rawIndexOf(emptyWeeks[3]) = 3

\* C4 as written: weekNumber is null if and only if some week-level exclusion
\* matches the raw index and has excludeFromCount = true; a week matched by
\* an exclusion with excludeFromCount = false has all its days blocked and
\* is numbered.
C4_NullIffSomeExcluding ==
    genReturned =>
        \A w \in 1..Len(emptyWeeks) :
            LET week == emptyWeeks[w]
                m == matchingExclusions(week)
            IN  /\ week.weekNumber = Null <=> \E j \in m : blockedWeeks[j].excludeFromCount
                /\ (\E j \in m : ~blockedWeeks[j].excludeFromCount) =>
                       /\ \A d \in 1..Len(week.days) : week.days[d].isBlocked
                       /\ week.weekNumber # Null

\* C4 amended: weekNumber is null if and only if the first week-level
\* exclusion in list order that matches the raw index has excludeFromCount =
\* true; a week whose first matching exclusion has excludeFromCount = false
\* has all its days blocked and is numbered.
C4_NullIffFirstExcluding ==
    genReturned =>
        \A w \in 1..Len(emptyWeeks) :
            LET week == emptyWeeks[w]
                f == firstMatch(week)
            IN  /\ week.weekNumber = Null <=> (f # 0 /\ blockedWeeks[f].excludeFromCount)
                /\ (f # 0 /\ ~blockedWeeks[f].excludeFromCount) =>
                       /\ \A d \in 1..Len(week.days) : week.days[d].isBlocked
                       /\ week.weekNumber # Null

\* one week excluded from count and one week blocked but still numbered
C4_Witness ==
    /\ genReturned
    /\ \E w \in 1..Len(emptyWeeks) :
          /\ firstMatch(emptyWeeks[w]) # 0
          /\ blockedWeeks[firstMatch(emptyWeeks[w])].excludeFromCount
          /\ emptyWeeks[w].weekNumber = Null
    /\ \E w \in 1..Len(emptyWeeks) :
          /\ firstMatch(emptyWeeks[w]) # 0
          /\ ~blockedWeeks[firstMatch(emptyWeeks[w])].excludeFromCount
          /\ emptyWeeks[w].weekNumber # Null
          /\ emptyWeeks[w].isBlocked

\* the calendar days of the Day Plans of a WeekPlan[], in output order
planDates(ws) == [k \in 1..Len(planDays(ws)) |-> localDate(planDays(ws)[k]).day]

\* Sunday (0) to Thursday (4), counting days from a Sunday
IsSunToThu(d) == d % 7 \in {0, 1, 2, 3, 4}

\* C13: for a valid range the Day Plans of generateEmptyWeeks are exactly the
\* Sunday-to-Thursday calendar dates d with start <= d <= end: each Day Plan
\* is such a date (at local midnight) and each such date is the date of
\* exactly one Day Plan.
C13_DaysAreTheSchoolDaysOfRange ==
    (genReturned /\ validRange) =>
        LET dates == planDates(emptyWeeks)
        IN  /\ \A k \in 1..Len(dates) :
                  /\ start.day <= dates[k] /\ dates[k] <= end.day
                  /\ IsSunToThu(dates[k])
                  /\ localDate(planDays(emptyWeeks)[k]).hour = 0
            /\ \A d \in start.day..end.day :
                  IsSunToThu(d) => Cardinality({k \in 1..Len(dates) : dates[k] = d}) = 1

\* a range that starts inside a week, crosses a weekend and ends inside a week
C13_Witness ==
    /\ genReturned /\ validRange
    /\ getDay(start) \in {1, 2, 3}
    /\ getDay(end) \in {1, 2, 3}
    /\ Len(emptyWeeks) = 2
    /\ Len(planDates(emptyWeeks)) >= 4

\* the Sunday at or before range.start
firstBucketDay == start.day - (start.day % 7)

\* the 7-day bucket of a calendar day, counted from that Sunday (0-based)
bucketOf(d) == (d - firstBucketDay) \div 7

weekDates(week) == [k \in 1..Len(week.days) |-> localDate(week.days[k]).day]

\* C14: every Week Plan of generateEmptyWeeks has between one and five Day
\* Plans, in strictly increasing date order and all in one 7-day bucket
\* counted from the Sunday at or before range.start; the Week Plans are in
\* strictly increasing chronological order, each in a later bucket than the
\* one before it.
C14_WeeksAreOrderedBuckets ==
    genReturned =>
        /\ \A w \in 1..Len(emptyWeeks) :
              LET dates == weekDates(emptyWeeks[w])
              IN  /\ Len(dates) >= 1 /\ Len(dates) <= 5
                  /\ \A k \in 1..(Len(dates) - 1) : dates[k] < dates[k + 1]
                  /\ \A k \in 1..Len(dates) : bucketOf(dates[k]) = bucketOf(dates[1])
        /\ \A w \in 1..(Len(emptyWeeks) - 1) :
              LET last == weekDates(emptyWeeks[w])[Len(emptyWeeks[w].days)]
                  next == weekDates(emptyWeeks[w + 1])[1]
              IN  last < next /\ bucketOf(last) < bucketOf(next)

\* a range starting on a Friday: the first bucket keeps no day and gives no
\* Week Plan, the weeks returned are the second bucket (full) and the third
C14_Witness ==
    /\ genReturned /\ validRange
    /\ getDay(start) = 5
    /\ Len(emptyWeeks) = 2
    /\ Len(emptyWeeks[1].days) = 5
    /\ bucketOf(weekDates(emptyWeeks[1])[1]) = 1
    /\ bucketOf(weekDates(emptyWeeks[2])[1]) = 2

\* 1-based raw index of the bucket of a calendar day
rawIndexOfDay(d) == bucketOf(d) + 1

weekNumberListed(n) == \E j \in 1..Len(blockedWeeks) : blockedWeeks[j].weekNumber = n

\* C15: week-level exclusions are matched against the raw week index (the
\* 1-based count of 7-day buckets from the Sunday at or before range.start,
\* dropped and excluded buckets counted), not against the display number: a
\* Week Plan is blocked, with all its days, exactly when its raw index is the
\* weekNumber of an exclusion, and without day-level exclusions totalDays
\* counts exactly the range's Sunday-to-Thursday days whose raw index is no
\* exclusion's weekNumber.
C15_ExclusionsMatchRawIndex ==
    genReturned =>
        /\ \A w \in 1..Len(emptyWeeks) :
              LET week == emptyWeeks[w]
                  listed == weekNumberListed(rawIndexOfDay(weekDates(week)[1]))
              IN  /\ week.isBlocked <=> listed
                  /\ listed => \A d \in 1..Len(week.days) : week.days[d].isBlocked
        /\ (validRange /\ blockedDates = <<>>) =>
              stats.totalDays =
                  Cardinality({d \in start.day..end.day :
                                  IsSunToThu(d) /\ ~weekNumberListed(rawIndexOfDay(d))})

\* raw week 2 is excluded from count and an exclusion with weekNumber 3
\* blocks the third raw week, which is displayed as 'Week 2'
C15_Witness ==
    /\ genReturned /\ validRange
    /\ Len(emptyWeeks) = 3
    /\ emptyWeeks[2].weekNumber = Null
    /\ rawIndexOfDay(weekDates(emptyWeeks[3])[1]) = 3
    /\ emptyWeeks[3].isBlocked
    /\ emptyWeeks[3].weekNumber = 2
    /\ emptyWeeks[3].displayWeekLabel = "Week 2"
    /\ ~emptyWeeks[1].isBlocked
    /\ stats.totalDays = Len(emptyWeeks[1].days)

statsReturned == stats # NoStats

\* C18: totalWeeks of calculateInstructionalStats is the ceiling of
\* totalDays / 5 (the least integer w with 5 * w >= totalDays), and both
\* values are integers >= 0.
C18_TotalWeeksIsCeiling ==
    statsReturned =>
        /\ stats.totalDays \in Nat
        /\ stats.totalWeeks \in Nat
        /\ 5 * stats.totalWeeks >= stats.totalDays
        /\ 5 * (stats.totalWeeks - 1) < stats.totalDays

\* seven available days, not a multiple of five, give two weeks, with days
\* taken out by exclusions
C18_Witness ==
    /\ statsReturned
    /\ validRange
    /\ stats.totalDays = 7
    /\ stats.totalWeeks = 2
    /\ Len(blockedDates) + Len(blockedWeeks) > 0

\* C11: when the range is inverted or either date is unparseable,
\* calculateInstructionalStats returns {totalDays: 0, totalWeeks: 0},
\* generateEmptyWeeks returns an empty sequence and getWeekDateRanges
\* returns an empty list.
C11_InvalidRangeYieldsNothing ==
    (genReturned /\ ~validRange) =>
        /\ stats = [totalDays |-> 0, totalWeeks |-> 0]
        /\ emptyWeeks = <<>>
        /\ ranges = <<>>

(***************************************************************************)
(* Properties of the labels (SpecLabels).                                  *)
(***************************************************************************)
\* indexes of the day-level exclusions whose date is the Day Plan's calendar date
dateMatches(day) ==
    {i \in 1..Len(blockedDates) :
        blockedDates[i].date.ok /\ blockedDates[i].date.day = localDate(day).day}

\* C19: a blocked Day Plan in a week matched by a week-level exclusion carries
\* that exclusion's label as blockLabel, also when a day-level exclusion
\* matches its date; a blocked Day Plan in a week with no matching week
\* exclusion carries the label of the day-level exclusion matching its date.
C19_BlockLabelWeekThenDay ==
    genReturned =>
        \A w \in 1..Len(emptyWeeks) : \A d \in 1..Len(emptyWeeks[w].days) :
            LET week == emptyWeeks[w]
                day == week.days[d]
                f == firstMatch(week)
                m == dateMatches(day)
            IN  day.isBlocked =>
                    IF f # 0 THEN day.blockLabel = blockedWeeks[f].label
                    ELSE /\ m # {}
                         /\ day.blockLabel =
                               blockedDates[CHOOSE i \in m : \A j \in m : i <= j].label

\* C20: a Week Plan with a weekNumber n is labelled 'Week n'; a Week Plan
\* without a weekNumber is labelled with the label of the exclusion matching
\* its raw index (the first in list order), or 'Holiday Break' when that
\* label is empty.
C20_DisplayWeekLabel ==
    genReturned =>
        \A w \in 1..Len(emptyWeeks) :
            LET week == emptyWeeks[w]
                f == firstMatch(week)
            IN  IF week.weekNumber # Null
                THEN week.displayWeekLabel = "Week " \o ToString(week.weekNumber)
                ELSE /\ f # 0
                     /\ week.displayWeekLabel =
                           (IF blockedWeeks[f].label = "" THEN "Holiday Break"
                            ELSE blockedWeeks[f].label)

\* a week excluded from count through a record with an empty label, shown as
\* 'Holiday Break', followed by a week whose raw index is 2, shown as 'Week 1'
C20_Witness ==
    /\ genReturned
    /\ Len(emptyWeeks) = 2
    /\ emptyWeeks[1].weekNumber = Null
    /\ emptyWeeks[1].displayWeekLabel = "Holiday Break"
    /\ emptyWeeks[2].displayWeekLabel = "Week 1"
    /\ rawIndexOf(emptyWeeks[2]) = 2

(***************************************************************************)
(* Properties of distributeLessons (SpecPack).                             *)
(***************************************************************************)
packReturned == pc = "packDone"

\* the Day Plans distributeLessons returned, and those it was given, in order
outDays == planDays(contents(filledWeeks, heap))

givenDays == planDays(contents(inWeeks, heap))

IsAssigned(day) == day.lessonId # Undefined

\* number of returned Day Plans carrying the id of lesson i
assignedCount(i) == Cardinality({k \in 1..Len(outDays) : outDays[k].lessonId = lessons[i].id})

\* position in the lesson list of the lesson a Day Plan carries
lessonIndexOf(day) == CHOOSE i \in 1..Len(lessons) : lessons[i].id = day.lessonId

positivePacings == \A i \in 1..Len(lessons) : lessons[i].pacing >= 1

RECURSIVE pacingSum(_)
pacingSum(ls) == IF ls = <<>> THEN 0 ELSE Head(ls).pacing + pacingSum(Tail(ls))

unblockedTotal == Len(unblockedDays(contents(inWeeks, heap)))

\* C5: with D unblocked days and positive pacings summing to P <= D, every
\* lesson is assigned exactly pacing days.
C5_AllLessonsFullyAssigned ==
    (packReturned /\ positivePacings /\ pacingSum(lessons) <= unblockedTotal) =>
        \A i \in 1..Len(lessons) : assignedCount(i) = lessons[i].pacing

\* scenario D: pacings 2 and 3 over five unblocked days: days 1-2, then 3-5
C5_Witness ==
    /\ packReturned
    /\ Len(lessons) = 2 /\ lessons[1].pacing = 2 /\ lessons[2].pacing = 3
    /\ Len(outDays) = 5 /\ unblockedTotal = 5
    /\ \A k \in 1..2 : outDays[k].lessonId = lessons[1].id
    /\ \A k \in 3..5 : outDays[k].lessonId = lessons[2].id

\* C6 as written: with P > D every unblocked day carries a lesson, a prefix
\* of the lesson list is fully assigned and every lesson after the prefix
\* receives zero days.
C6_PrefixThenNothing ==
    (packReturned /\ positivePacings /\ pacingSum(lessons) > unblockedTotal) =>
        /\ \A k \in 1..Len(outDays) : ~outDays[k].isBlocked => IsAssigned(outDays[k])
        /\ \E n \in 0..Len(lessons) :
              /\ \A i \in 1..n : assignedCount(i) = lessons[i].pacing
              /\ \A i \in (n + 1)..Len(lessons) : assignedCount(i) = 0

\* C6 amended: with P > D every unblocked day carries a lesson, a prefix of
\* the lesson list is fully assigned, the lesson right after the prefix
\* receives fewer days than its pacing (the days that were left, possibly
\* none), and every later lesson receives zero days.
C6_PrefixThenPartial ==
    (packReturned /\ positivePacings /\ pacingSum(lessons) > unblockedTotal) =>
        /\ \A k \in 1..Len(outDays) : ~outDays[k].isBlocked => IsAssigned(outDays[k])
        /\ \E n \in 0..(Len(lessons) - 1) :
              /\ \A i \in 1..n : assignedCount(i) = lessons[i].pacing
              /\ assignedCount(n + 1) < lessons[n + 1].pacing
              /\ \A i \in (n + 2)..Len(lessons) : assignedCount(i) = 0

\* P > D with a full lesson, a lesson cut short and a lesson left out
C6_Witness ==
    /\ packReturned /\ positivePacings
    /\ pacingSum(lessons) > unblockedTotal
    /\ Len(lessons) = 3
    /\ assignedCount(1) = lessons[1].pacing
    /\ assignedCount(2) > 0 /\ assignedCount(2) < lessons[2].pacing
    /\ assignedCount(3) = 0
    /\ \E k \in 1..Len(outDays) : outDays[k].isBlocked

\* C7: no blocked Day Plan carries a lessonId or lessonName in the output;
\* visiting a blocked day changes neither lessonIdx nor dayInLessonCounter;
\* so every lesson the cursor has passed holds its full pacing in unblocked
\* days, whatever blocked days lie between them.
C7_BlockedDaysUntouched ==
    /\ [](packReturned =>
            /\ \A k \in 1..Len(outDays) : outDays[k].isBlocked =>
                  /\ outDays[k].lessonId = Undefined
                  /\ outDays[k].lessonName = Undefined
            /\ \A i \in 1..lessonIdx :
                  Cardinality({k \in 1..Len(outDays) :
                      ~outDays[k].isBlocked /\ outDays[k].lessonId = lessons[i].id})
                    = pacingOrOne(lessons[i].pacing))
    /\ [][(pc = "packLoop" /\ pos # <<0, 0>> /\ heap[curDay].isBlocked) =>
            (lessonIdx' = lessonIdx /\ dayInLessonCounter' = dayInLessonCounter)]_vars

\* a lesson whose days lie on both sides of a blocked day
C7_Witness ==
    /\ packReturned
    /\ \E j, k, l \in 1..Len(outDays) :
          /\ j < k /\ k < l
          /\ outDays[k].isBlocked
          /\ IsAssigned(outDays[j])
          /\ outDays[j].lessonId = outDays[l].lessonId

\* C8: along the unblocked days in order, the position of the assigned
\* lesson starts at the first lesson, never decreases and never skips a
\* lesson, and no assigned day follows an unassigned one: the days of each
\* lesson are one contiguous run and the runs come in input order.
C8_LessonsInInputOrder ==
    packReturned =>
        LET u == unblockedDays(contents(filledWeeks, heap))
        IN  \A j \in 1..Len(u) :
                IsAssigned(u[j]) =>
                    IF j = 1 THEN lessonIndexOf(u[j]) = 1
                    ELSE /\ IsAssigned(u[j - 1])
                         /\ lessonIndexOf(u[j]) \in
                                {lessonIndexOf(u[j - 1]), lessonIndexOf(u[j - 1]) + 1}

\* three lessons laid out over days with a blocked day among them
C8_Witness ==
    /\ packReturned
    /\ Len(lessons) = 3
    /\ \A i \in 1..3 : assignedCount(i) > 0
    /\ assignedCount(1) >= 2
    /\ \E k \in 2..Len(outDays) : outDays[k].isBlocked

\* C9: distributeLessons leaves its arguments as they were at the call (the
\* weeks array, every field of every Day Plan, the lesson list), and what
\* it returns shares no Week Plan or Day Plan object with its argument.
C9_InputsUntouched ==
    (pc \in {"packLoop", "packDone"}) =>
        /\ inWeeks = atCall.weeks
        /\ \A a \in DOMAIN atCall.heap : heap[a] = atCall.heap[a]
        /\ lessons = atCall.lessons
        /\ weekRefs(updatedWeeks) \cap weekRefs(inWeeks) = {}
        /\ dayAddrs(updatedWeeks, heap) \cap dayAddrs(inWeeks, heap) = {}
        /\ packReturned => filledWeeks = updatedWeeks

\* a call that returned weeks in which several days carry a lesson
C9_Witness ==
    /\ packReturned
    /\ Len(inWeeks) >= 2
    /\ Cardinality({k \in 1..Len(outDays) : IsAssigned(outDays[k])}) >= 3
    /\ \A k \in 1..Len(givenDays) : ~IsAssigned(givenDays[k])

statsReturns == pc = "stats"

genReturns == pc \in {"gen", "genLoop"} /\ pc' = "genDone"

packReturns == pc = "packLoop" /\ pc' = "packDone"

\* the added record is malformed: a date text that does not parse, or a week
\* number outside the raw weeks 1..getWeekNum(end) of the range
addedMalformed ==
    \/ edit.kind = "addDate" /\ ~edit.rec.date.ok
    \/ edit.kind = "addWeek" /\
          (edit.rec.weekNumber < 1 \/ edit.rec.weekNumber > getWeekNum(end))

\* C12: after a malformed exclusion record has been added (unparseable date,
\* or weekNumber 0, negative or beyond the last raw week), the operations
\* return what they returned without it: calculateInstructionalStats the same
\* stats, generateEmptyWeeks the same weeks.
C12_MalformedRecordBlocksNothing ==
    [][addedMalformed =>
        /\ statsReturns => stats' = stats
        /\ genReturns => emptyWeeks' = emptyWeeks]_vars

\* the second run has returned after a record with an unparseable date was
\* added to a list whose other records block days of the range
C12_Witness ==
    /\ genReturned
    /\ edit.kind = "addDate" /\ ~edit.rec.date.ok
    /\ Len(blockedDates) >= 2
    /\ stats.totalDays > 0
    /\ \E w \in 1..Len(emptyWeeks) : \E d \in 1..Len(emptyWeeks[w].days) :
          emptyWeeks[w].days[d].isBlocked

\* the isBlocked values of a WeekPlan[]: of each week and of each of its days
blockedFlags(ws) ==
    [w \in 1..Len(ws) |->
        [isBlocked |-> ws[w].isBlocked,
         days |-> [d \in 1..Len(ws[w].days) |-> ws[w].days[d].isBlocked]]]

\* which lesson each Day Plan carries, by date, in output order
assignment(ws) ==
    [k \in 1..Len(planDays(ws)) |->
        [date |-> planDays(ws)[k].date, lessonId |-> planDays(ws)[k].lessonId]]

\* C16: after the excludeFromCount flag of a week-level exclusion has been
\* flipped, calculateInstructionalStats returns the same stats,
\* generateEmptyWeeks returns weeks with the same isBlocked value on every
\* Week Plan and every Day Plan, and distributeLessons assigns the same days
\* to the same lessons.
C16_FlagGovernsNumberingOnly ==
    [][edit.kind = "toggle" =>
        /\ statsReturns => stats' = stats
        /\ genReturns => blockedFlags(emptyWeeks') = blockedFlags(emptyWeeks)
        /\ packReturns =>
              assignment(contents(filledWeeks', heap')) = assignment(contents(filledWeeks, heap))]_vars

\* the second run has returned after a flag was flipped: a blocked week, a
\* free week and lessons laid out
C16_Witness ==
    /\ packReturned
    /\ edit.kind = "toggle"
    /\ \E w \in 1..Len(emptyWeeks) : emptyWeeks[w].isBlocked
    /\ \E w \in 1..Len(emptyWeeks) : ~emptyWeeks[w].isBlocked
    /\ \E k \in 1..Len(outDays) : IsAssigned(outDays[k])
    /\ stats.totalDays > 0

(***************************************************************************)
(* Properties of the wizard (SpecApp).                                     *)
(***************************************************************************)
\* every lesson of the map carries the placeholder texts
allPlaceholders(map) ==
    \A id \in DOMAIN map.lessonDetails : map.lessonDetails[id].detail = placeholderDetail

\* C17: when generateCourseMeta or generateLessonDetails has failed outright,
\* runAIGeneration goes on with placeholder text for every lesson: its next
\* step sets a curriculum map and moves the wizard to PREVIEW.
C17_FailureFallsBackToPlaceholders ==
    [][pc = "catch" =>
        /\ step' = PREVIEW
        /\ curriculumMap'.set
        /\ allPlaceholders(curriculumMap')]_vars

(***************************************************************************)
(* Properties of the pacing of a lesson (SpecPacing).                      *)
(***************************************************************************)
\* max(1, pacing), with a pacing that is not a number counted as 1
maxOnePacing(p) == IF p = NaN \/ p < 1 THEN 1 ELSE p

\* days the first i lessons take when each takes max(1, pacing)
RECURSIVE daysThrough(_)
daysThrough(i) == IF i = 0 THEN 0 ELSE daysThrough(i - 1) + maxOnePacing(lessons[i].pacing)

outUnblocked == unblockedDays(contents(filledWeeks, heap))

\* C21: a lesson consumes max(1, pacing) unblocked days before the cursor
\* advances: in the returned plan the k-th unblocked day carries lesson i
\* exactly when k lies after the max(1, pacing) days of lessons 1..i-1 and
\* within those of lessons 1..i, so a lesson of pacing 0, negative or NaN has
\* one day and the next lesson starts on the following unblocked day; days
\* past the last lesson carry nothing.
C21_LessonTakesMaxOnePacing ==
    packReturned =>
        \A k \in 1..Len(outUnblocked) :
            /\ \A i \in 1..Len(lessons) :
                   (daysThrough(i - 1) < k /\ k <= daysThrough(i))
                       => outUnblocked[k].lessonId = lessons[i].id
            /\ k > daysThrough(Len(lessons)) => ~IsAssigned(outUnblocked[k])

\* three lessons of pacing NaN, negative and 0 were packed around a blocked
\* day and hold the first three unblocked days, one each
C21_Witness ==
    /\ packReturned
    /\ Len(lessons) = 3
    /\ lessons[1].pacing = NaN
    /\ lessons[2].pacing < 0 /\ lessons[2].pacing # NaN
    /\ lessons[3].pacing = 0
    /\ Len(outUnblocked) >= 4
    /\ \A i \in 1..3 : outUnblocked[i].lessonId = lessons[i].id
    /\ ~IsAssigned(outUnblocked[4])
    /\ outDays[2].isBlocked

(***************************************************************************)
(* Properties of getWeekDateRanges (Spec).                                 *)
(***************************************************************************)
\* the Sunday-to-Thursday calendar days of the range
rangeSchoolDays == {d \in start.day..end.day : IsSunToThu(d)}

rangeWeekNumbers == [k \in 1..Len(ranges) |-> ranges[k].weekNumber]

\* C22: for a valid range getWeekDateRanges lists, in strictly increasing
\* weekNumber order, exactly the raw weeks holding a Sunday-to-Thursday day
\* of the range; that number is the one getWeekNum gives every such day of
\* the week (the lookup of calculateInstructionalStats) and the raw index of
\* the Week Plan generateEmptyWeeks returns at the same position; the
\* exclusion lists, which vary freely here, play no part.
C22_RangesListTheRawWeeks ==
    (genReturned /\ validRange) =>
        /\ \A k \in 1..(Len(ranges) - 1) : ranges[k].weekNumber < ranges[k + 1].weekNumber
        /\ {ranges[k].weekNumber : k \in 1..Len(ranges)}
               = {rawIndexOfDay(d) : d \in rangeSchoolDays}
        /\ \A d \in rangeSchoolDays : getWeekNum(MkDate(d)) = rawIndexOfDay(d)
        /\ Len(emptyWeeks) = Len(ranges)
        /\ \A k \in 1..Len(ranges) : rawIndexOf(emptyWeeks[k]) = ranges[k].weekNumber

\* a range starting on a Friday and reaching the third raw week, with a week
\* exclusion on raw week 2: the list is weeks 2 and 3, and the Week Plan at
\* the first position is the blocked one
C22_Witness ==
    /\ genReturned /\ validRange
    /\ getDay(start) = 5
    /\ rangeWeekNumbers = <<2, 3>>
    /\ weekNumberListed(2)
    /\ emptyWeeks[1].isBlocked
    /\ ~emptyWeeks[2].isBlocked

(***************************************************************************)
(* Properties of packing weeks that already carry lessons (SpecRepack).    *)
(***************************************************************************)
\* a Day Plan object of the heap carrying the id of the first list's lesson 1
carriesFirstList(a) == "lessonId" \in DOMAIN heap[a] /\ heap[a].lessonId = "L1"

\* C23: what distributeLessons returns does not depend on lessons already in
\* its input: the call distributeLessons(W, L2) returns, field by field, the
\* weeks that distributeLessons(distributeLessons(W, L1), L2) returned just
\* before, and any call with an empty lesson list returns weeks in which no
\* day carries a lesson.
C23_PriorAssignmentsIgnored ==
    [][packReturns =>
        /\ round = 2 => contents(updatedWeeks, heap) = contents(filledWeeks, heap)
        /\ lessons = <<>> =>
               \A k \in 1..Len(planDays(contents(updatedWeeks, heap))) :
                   ~IsAssigned(planDays(contents(updatedWeeks, heap))[k])]_vars

\* the third call has returned; the weeks it returned carry the second
\* list's lessons, and the weeks the second call was given (still in the
\* heap) carry the first list's
C23_Witness ==
    /\ packReturned
    /\ round = 2
    /\ Len(lessons) = 2
    /\ Len(outDays) = MaxRepackDays
    /\ \E k \in 1..Len(outDays) : outDays[k].lessonId = lessons[2].id
    /\ Cardinality({a \in DOMAIN heap : carriesFirstList(a)}) >= 2
    /\ \E k \in 1..Len(outDays) : outDays[k].isBlocked

(***************************************************************************)
(* Properties of the days left without a lesson (SpecPack).                *)
(***************************************************************************)
\* number of the first k unblocked days returned that carry lesson i
givenBefore(i, k) ==
    Cardinality({j \in 1..k : outUnblocked[j].lessonId = lessons[i].id})

\* C24: in the weeks distributeLessons returns, an unblocked day without a
\* lesson is followed only by unblocked days without a lesson, and every
\* lesson of the list has had all its days (max(1, pacing)) on unblocked
\* days before it.
C24_UnassignedDaysAreASuffix ==
    packReturned =>
        \A k \in 1..Len(outUnblocked) :
            ~IsAssigned(outUnblocked[k]) =>
                /\ \A j \in k..Len(outUnblocked) : ~IsAssigned(outUnblocked[j])
                /\ \A i \in 1..Len(lessons) :
                       givenBefore(i, k - 1) = maxOnePacing(lessons[i].pacing)

\* five days, the first one blocked: two lessons took the first three
\* unblocked days and the last unblocked day is left without a lesson
C24_Witness ==
    /\ packReturned
    /\ Len(lessons) = 2
    /\ lessons[1].pacing = 2
    /\ Len(outDays) = 5
    /\ Len(outUnblocked) = 4
    /\ IsAssigned(outUnblocked[3])
    /\ ~IsAssigned(outUnblocked[4])
    /\ outDays[1].isBlocked

(***************************************************************************)
(* The capacity display of the LESSONS step, and its properties (SpecPipe).*)
(***************************************************************************)
\* Number(l.pacing) || 0
pacingOrZero(pacing) == IF pacing = NaN THEN 0 ELSE pacing

\* mutant: the lessons are counted, their pacings are not added
RECURSIVE totalPacing_count(_)
totalPacing_count(ls) == IF ls = <<>> THEN 0 ELSE 1 + totalPacing_count(Tail(ls))

\* lessons.reduce((sum, l) => sum + (Number(l.pacing) || 0), 0)
RECURSIVE totalPacing(_)
totalPacing(ls) ==
    IF ls = <<>> THEN 0
    ELSE totalPacing(SubSeq(ls, 1, Len(ls) - 1)) + pacingOrZero(ls[Len(ls)].pacing)

\* the Planning Status shown for the statistics s
planningStatus(s) ==
    IF totalPacing(lessons) > s.totalDays THEN "Over Capacity" ELSE "Perfectly Scheduled"

\* C25: for a valid range and lessons of positive integer pacing, when the
\* status computed from calculateInstructionalStats is 'Perfectly Scheduled'
\* (sum of pacings <= totalDays) distributeLessons over generateEmptyWeeks
\* for the same range and exclusions gives every lesson exactly its pacing
\* in days, and when it is 'Over Capacity' some lesson has fewer days than
\* its pacing.
C25_CapacityCheckIsSound ==
    (packReturned /\ validRange /\ positivePacings) =>
        /\ planningStatus(stats) = "Perfectly Scheduled" =>
               \A i \in 1..Len(lessons) : assignedCount(i) = lessons[i].pacing
        /\ planningStatus(stats) = "Over Capacity" =>
               \E i \in 1..Len(lessons) : assignedCount(i) < lessons[i].pacing

\* a run shown as 'Perfectly Scheduled' with a day exclusion and a week
\* exclusion in force, in which two lessons of three days in all were placed
C25_Witness ==
    /\ packReturned /\ validRange
    /\ Len(lessons) = 2
    /\ totalPacing(lessons) = 3
    /\ planningStatus(stats) = "Perfectly Scheduled"
    /\ stats.totalDays = 3
    /\ blockedDates # <<>>
    /\ \E k \in 1..Len(outDays) : outDays[k].isBlocked
    /\ assignedCount(1) + assignedCount(2) = 3

\* a run shown as 'Over Capacity': the second lesson has one day of its two
C25_WitnessOver ==
    /\ packReturned /\ validRange
    /\ Len(lessons) = 2
    /\ planningStatus(stats) = "Over Capacity"
    /\ assignedCount(1) = lessons[1].pacing
    /\ assignedCount(2) = 1 /\ lessons[2].pacing = 2

(***************************************************************************)
(* Properties of the lesson at which the days run out (SpecWeek).          *)
(***************************************************************************)
\* scenario B: Sunday to Thursday of one week, a day exclusion dated the
\* Tuesday, one lesson of pacing 5
scenarioB ==
    /\ start = MkDate(0) /\ end = MkDate(4)
    /\ blockedDates = <<[date |-> [ok |-> TRUE, day |-> 2], label |-> "Exam"]>>
    /\ blockedWeeks = <<>>
    /\ lessons = <<newLesson(1, 5)>>

\* lesson i holds some days, fewer than its pacing
IsPartial(i) == 0 < assignedCount(i) /\ assignedCount(i) < lessons[i].pacing

RECURSIVE givenThrough(_)
givenThrough(i) == IF i = 0 THEN 0 ELSE givenThrough(i - 1) + assignedCount(i)

\* C26: in scenario B the lesson of pacing 5 holds the 4 unblocked days and
\* no blocked day; in every run no blocked day carries a lesson, at most one
\* lesson holds a number of days strictly between 0 and its pacing, that
\* lesson is the last one in input order holding any day, and it holds all
\* the unblocked days the lessons before it left.
C26_OnePartialLessonAtTheEnd ==
    packReturned =>
        /\ scenarioB => (assignedCount(1) = 4 /\ Len(outUnblocked) = 4)
        /\ \A k \in 1..Len(outDays) : outDays[k].isBlocked => ~IsAssigned(outDays[k])
        /\ \A i \in 1..Len(lessons) :
              IsPartial(i) =>
                  /\ \A j \in 1..Len(lessons) : IsPartial(j) => j = i
                  /\ \A j \in (i + 1)..Len(lessons) : assignedCount(j) = 0
                  /\ assignedCount(i) = Len(outUnblocked) - givenThrough(i - 1)

\* scenario B has run: five Day Plans, one blocked, four carrying the lesson
C26_Witness ==
    /\ packReturned
    /\ scenarioB
    /\ Len(outDays) = 5
    /\ Cardinality({k \in 1..5 : outDays[k].isBlocked}) = 1
    /\ IsPartial(1)
    /\ assignedCount(1) = 4

(***************************************************************************)
(* Properties of runAIGeneration and the wizard step (FairApp).            *)
(***************************************************************************)
\* the lesson list of the latest generation: the one distributeLessons got
mapCoversGeneration ==
    /\ curriculumMap.set
    /\ \A i \in 1..Len(atCall.lessons) :
          atCall.lessons[i].id \in DOMAIN curriculumMap.lessonDetails

\* C27: a run of runAIGeneration whose two enrichment calls have resolved
\* comes to rest with loading false at PREVIEW, one in which a call has
\* rejected comes to rest with loading false at LESSONS; at rest the step is
\* never GENERATION and loading is never true; and whenever the step is
\* PREVIEW a curriculum map is set whose lessonDetails has an entry for
\* every lesson of the list of the latest generation.
C27_RunEndsGeneration ==
    /\ (pc = "gen") ~> (pc = "idle" /\ ~loading /\ step = PREVIEW)
    /\ (pc = "catch") ~> (pc = "idle" /\ ~loading /\ step = LESSONS)
    /\ [](pc = "idle" => (~loading /\ step # GENERATION))
    /\ [](step = PREVIEW => mapCoversGeneration)

\* the preview after a second generation, with a lesson added to the list
\* since: the map has an entry for the lesson generated, not for the new one
C27_Witness ==
    /\ pc = "idle"
    /\ step = PREVIEW
    /\ ~loading
    /\ round = 2
    /\ Len(atCall.lessons) = 1
    /\ Len(lessons) = 2
    /\ lessons[2].id \notin DOMAIN curriculumMap.lessonDetails
    /\ mapCoversGeneration

(***************************************************************************)
(* Properties tying a Week Plan's flags to its days (Spec).                *)
(***************************************************************************)
hasUnblockedDay(week) == \E k \in 1..Len(week.days) : ~week.days[k].isBlocked

\* C28: in the weeks generateEmptyWeeks returns, a Week Plan with isBlocked
\* true has only blocked Day Plans, a Week Plan whose weekNumber is null has
\* isBlocked true, and a Week Plan with an unblocked Day Plan has a number.
C28_WeekFlagsAgreeWithDays ==
    genReturned =>
        \A w \in 1..Len(emptyWeeks) :
            LET week == emptyWeeks[w]
            IN  /\ week.isBlocked => \A k \in 1..Len(week.days) : week.days[k].isBlocked
                /\ week.weekNumber = Null => week.isBlocked
                /\ hasUnblockedDay(week) => IsNumbered(week)

\* three weeks: a blocked one that keeps its number, a blocked one without
\* a number, and one that is not blocked and has an unblocked day
C28_Witness ==
    /\ genReturned /\ validRange
    /\ Len(emptyWeeks) = 3
    /\ \E w \in 1..3 : emptyWeeks[w].isBlocked /\ IsNumbered(emptyWeeks[w])
    /\ \E w \in 1..3 : emptyWeeks[w].isBlocked /\ ~IsNumbered(emptyWeeks[w])
    /\ \E w \in 1..3 : ~emptyWeeks[w].isBlocked /\ hasUnblockedDay(emptyWeeks[w])

(***************************************************************************)
(* Properties of several week exclusions for one week (SpecDup).           *)
(***************************************************************************)
\* C29: for a week matched by one or more week-level exclusions, the first
\* of them in list order alone gives the week's blockLabel, decides whether
\* the week is numbered, and gives its displayWeekLabel (its label, or
\* "Holiday Break" when that is empty, if it has excludeFromCount; "Week n"
\* otherwise, whatever a later record says); a non-empty label of it is the
\* blockLabel of every day; in any order all days of the week are blocked
\* and totalDays counts none of them.
C29_FirstWeekExclusionDecides ==
    (genReturned /\ validRange) =>
        /\ stats.totalDays = Len(unblockedDays(emptyWeeks))
        /\ \A w \in 1..Len(emptyWeeks) :
              LET week == emptyWeeks[w]
                  f == firstMatch(week)
                  first == blockedWeeks[f]
              IN  f # 0 =>
                    /\ week.isBlocked
                    /\ week.blockLabel = first.label
                    /\ IsNumbered(week) <=> ~first.excludeFromCount
                    /\ week.displayWeekLabel =
                           IF first.excludeFromCount
                           THEN (IF first.label = "" THEN "Holiday Break" ELSE first.label)
                           ELSE weekLabelText(week.weekNumber)
                    /\ \A k \in 1..Len(week.days) :
                           /\ week.days[k].isBlocked
                           /\ first.label # "" => week.days[k].blockLabel = first.label
                           /\ first.label = "" => week.days[k].blockLabel \in {Undefined, "Exam"}

\* two exclusions for raw week 1 with different labels, the first one with
\* excludeFromCount false and the second with true: the week is numbered,
\* blocked, and labelled by the first
C29_Witness ==
    /\ genReturned /\ validRange
    /\ blockedWeeks[1].weekNumber = 1 /\ blockedWeeks[2].weekNumber = 1
    /\ ~blockedWeeks[1].excludeFromCount /\ blockedWeeks[2].excludeFromCount
    /\ blockedWeeks[1].label = "Camp" /\ blockedWeeks[2].label = "Break"
    /\ Len(emptyWeeks) = 2
    /\ rawIndexOf(emptyWeeks[1]) = 1
    /\ emptyWeeks[1].weekNumber = 1
    /\ emptyWeeks[1].blockLabel = "Camp"
    /\ emptyWeeks[2].weekNumber = 2

(***************************************************************************)
(* Properties comparing the three counts of weeks (Spec).                  *)
(***************************************************************************)
weeksWithUnblockedDay == {w \in 1..Len(emptyWeeks) : hasUnblockedDay(emptyWeeks[w])}

\* the range of one Thursday followed by one Sunday, without exclusions
thursdayToSunday ==
    /\ start = MkDate(4) /\ end = MkDate(7)
    /\ blockedDates = <<>> /\ blockedWeeks = <<>>

\* C30: for a valid range, totalWeeks of calculateInstructionalStats is at
\* most the number of Week Plans of generateEmptyWeeks with an unblocked
\* day, which is at most the number of Week Plans with a weekNumber; for a
\* Thursday-to-Sunday range totalWeeks is 1 and two Week Plans are numbered.
C30_WeekCountsAreOrdered ==
    (genReturned /\ validRange) =>
        /\ stats.totalWeeks <= Cardinality(weeksWithUnblockedDay)
        /\ Cardinality(weeksWithUnblockedDay) <= Len(numberedWeeks(emptyWeeks))
        /\ thursdayToSunday =>
               (stats.totalWeeks = 1 /\ Len(numberedWeeks(emptyWeeks)) = 2)

\* the Thursday-to-Sunday range has been through both operations: one week
\* by the statistics, two numbered Week Plans of one day each
C30_Witness ==
    /\ genReturned
    /\ thursdayToSunday
    /\ stats.totalDays = 2
    /\ stats.totalWeeks = 1
    /\ Len(emptyWeeks) = 2
    /\ Cardinality(weeksWithUnblockedDay) = 2
    /\ \A w \in 1..2 : Len(emptyWeeks[w].days) = 1 /\ IsNumbered(emptyWeeks[w])

\* the last two counts differ: a blocked week that keeps its number
C30_WitnessBlockedNumbered ==
    /\ genReturned /\ validRange
    /\ Cardinality(weeksWithUnblockedDay) = 1
    /\ Len(numberedWeeks(emptyWeeks)) = 2
    /\ stats.totalWeeks = 1

====
